---- MODULE Spec2Model ----
(***************************************************************************)
(* TaskNap (src/TaskNap.py): the scheduling core of SchedulerApp.          *)
(*                                                                         *)
(* The program runs on one Qt event loop.  A handler (a slot) runs to its  *)
(* end before the next event is delivered, except across dialog.exec_():   *)
(* PreActionDialog.exec_() runs a nested event loop, so prepare_for_action *)
(* is suspended at line 595 while timers, the tray menu and the watchdog   *)
(* keep being served.  The suspended calls form a stack (the Python call   *)
(* stack): an exec_() returns only when every exec_() entered after it has *)
(* returned.                                                               *)
(*                                                                         *)
(* Time unit of timer intervals and tick counters: 8 ms, so that the       *)
(* 32-bit millisecond range (2^32 ms = 2^29 units) fits the model's        *)
(* integers and one second is a whole number of units (125).               *)
(***************************************************************************)
EXTENDS Integers, Sequences, FiniteSets, TLC

\* ------------------------------------------------------------------ bounds
\* at most MaxId schedule requests for a future time
MaxId == 2
\* notifications/seconds_before as config.ini holds it: the length of the
\* pre-action countdown.  The settings dialog's spin box offers 5..3600; the
\* value is read as it is stored (line 585), and the countdown is checked
\* for short lead times.
LeadSeconds == 2
\* the processes that are started on the machine: 1 .. MaxProcesses
MaxProcesses == 3
MaxOffset == 8

\* --------------------------------------------------------------- constants
MsPerUnit == 2 ^ 3
UnitsPerSecond == 1000 \div MsPerUnit
\* a C int holds -2^31 .. 2^31 - 1 ms
CIntModulus == 2 ^ (32 - 3)
CIntMax == 2 ^ (31 - 3) - 1
\* the "Schedule ..." buttons pressed in the model ("Schedule Sleep", line
\* 398, runs the same handler)
ScheduleKinds == {"shutdown", "restart"}

\* the .ini defaults, and the lower end of the inactivity spin box
DefaultNotifySeconds == 30
MinTimeoutMinutes == 1
DefaultTimeoutMinutes == 30

\* QDateTime.currentDateTime() as read by schedule_action, in seconds
CurrentTimes == {1}
\* a delay of 2^31 ms + 352 ms (about 24.9 days)
FarDelays == {2147484}
\* the date/time picker's value, in seconds
PickerTimes == {0, 1, 2} \cup {1 + d : d \in FarDelays}

VARIABLES
    scheduled_events,   \* self.scheduled_events: timer_id -> (action_type, scheduled_datetime)
    last_timer_id,      \* self.last_timer_id
    timers,             \* the QTimer made for each timer_id
    settings,           \* self.settings (config.ini)
    dialogs,            \* the PreActionDialog made for each timer_id
    stack,              \* timer_ids whose prepare_for_action is suspended in exec_()
    performed,          \* the perform_system_action calls execute_action has
                        \* made so far, by timer_id
    canceled,           \* how often a cancel deleted the entry of each timer_id
    alive,              \* the process has not been aborted
    last_call,          \* the handler that ran last: its inputs, the
                        \* perform_system_action calls it made (calls), the
                        \* lines it appended to scheduler_log.txt (logged) and
                        \* the text it set self.info_label to (said)
    semaphore,          \* the count of the system semaphore "MySchedulerAppSemaphore"
    shared_memory,      \* the processes attached to the shared memory segment
                        \* "MySchedulerAppSharedMemory"; the segment exists
                        \* while the set is not empty
    process             \* each process's place in __main__ (pc), its local
                        \* is_running, and whether it has made its SchedulerApp

guard_vars == <<semaphore, shared_memory, process>>

vars == <<scheduled_events, last_timer_id, timers, settings, dialogs, stack,
          performed, canceled, alive, last_call, semaphore, shared_memory,
          process>>

\* ----------------------------------------------------------------- helpers
Put(f, k, v) == [x \in DOMAIN f \cup {k} |-> IF x = k THEN v ELSE f[x]]
Remove(f, k) == [x \in DOMAIN f \ {k} |-> f[x]]
Empty == [x \in {} |-> 0]
Top(st) == st[Len(st)]
Pop(st) == SubSeq(st, 1, Len(st) - 1)
Min(S) == CHOOSE x \in S : \A y \in S : x <= y
At(f, k, default) == IF k \in DOMAIN f THEN f[k] ELSE default

\* The state a handler works on: the program's state, the exception in
\* flight (raised), and the environment during this handler: whether the log
\* file can be opened for append (writable) and whether this PyQt5 build
\* aborts the process on an exception that leaves a slot (abort).
Frame(writable, abort) ==
    [scheduled_events |-> scheduled_events, last_timer_id |-> last_timer_id,
     timers |-> timers, dialogs |-> dialogs, stack |-> stack,
     performed |-> performed, canceled |-> canceled, alive |-> alive,
     calls |-> <<>>, logged |-> <<>>, said |-> "",
     raised |-> FALSE, unhandled |-> FALSE,
     writable |-> writable, abort |-> abort]

\* A slot returns to Qt: an exception still in flight is unhandled.
Slot(s) ==
    IF s.raised
    THEN [s EXCEPT !.raised = FALSE, !.unhandled = TRUE, !.alive = ~s.abort]
    ELSE s

Commit(s, call) ==
    /\ scheduled_events' = s.scheduled_events
    /\ last_timer_id' = s.last_timer_id
    /\ timers' = s.timers
    /\ dialogs' = s.dialogs
    /\ stack' = s.stack
    /\ performed' = s.performed
    /\ canceled' = s.canceled
    /\ alive' = s.alive
    /\ last_call' = [call EXCEPT !.unhandled = s.unhandled, !.calls = s.calls,
                                 !.logged = s.logged, !.said = s.said]
    /\ UNCHANGED guard_vars

\* what every last_call record carries besides the handler's inputs
NoOutput == [unhandled |-> FALSE, calls |-> <<>>, logged |-> <<>>, said |-> ""]


\* ----------------------------------------------------------------- logging
log_event(s, message) ==
    IF ~settings.logging_enable THEN s
    ELSE IF s.writable THEN [s EXCEPT !.logged = Append(@, message)]
    ELSE [s EXCEPT !.raised = TRUE]

\* ------------------------------------------------------------------ timers
\* int(delay_seconds * 1000), in units; exact for a delay of whole seconds
IntervalUnits(delay_seconds) == delay_seconds * UnitsPerSecond

\* The low 32 bits of an interval, read as a C int.
WrapCInt(units) ==
    ((units + (CIntMax + 1)) % CIntModulus) - (CIntMax + 1)

\* timer.start(msec) of a new single-shot QTimer.  msec is a Python int and
\* the parameter a C int: a value above INT_MAX either raises OverflowError
\* (a binding that checks the conversion) or is cut to its low 32 bits (one
\* that does not); Qt refuses to arm a timer with a negative interval.
QTimer_start(units, checked) ==
    IF units <= CIntMax THEN [state |-> "running", interval |-> units]
    ELSE IF checked THEN [state |-> "OverflowError", interval |-> 0]
    ELSE IF WrapCInt(units) < 0
         THEN [state |-> "unarmed", interval |-> WrapCInt(units)]
         ELSE [state |-> "running", interval |-> WrapCInt(units)]

\* timer.isActive(): a timer that was armed and has neither fired nor been
\* stopped.
isActive(timer) == timer.state = "running"

\* if timer.isActive(): timer.stop()
StopTimer(tm, timer_id) ==
    IF isActive(tm[timer_id])
    THEN [tm EXCEPT ![timer_id].state = "stopped"]
    ELSE tm

\* --------------------------------------------------------------- scheduler
\* os.system(...) of the command for action_type; timer_id names the event
\* the call is made for (0: none, the watchdog's call)
perform_system_action(s, action_type, timer_id) ==
    LET call == [action_type |-> action_type, timer_id |-> timer_id,
                 in_registry |-> timer_id \in DOMAIN s.scheduled_events]
    IN [s EXCEPT !.calls = Append(@, call),
                 !.performed = IF timer_id = 0 THEN @
                               ELSE Put(@, timer_id, Append(At(@, timer_id, <<>>), call))]

\* mutant: a request for exactly now is let through
InvalidTime_strict(delay_seconds) == delay_seconds < 0

\* if delay_seconds <= 0: (line 543)
InvalidTime(delay_seconds) == delay_seconds <= 0

\* mutant: the id is taken from the size of the registry
NextTimerId_reuse(s) == Cardinality(DOMAIN s.scheduled_events) + 1

\* self.last_timer_id += 1; timer_id = self.last_timer_id
NextTimerId(s) == s.last_timer_id + 1

schedule_action(s, action_type, scheduled_datetime, current_time, checked) ==
    LET delay_seconds == scheduled_datetime - current_time IN
    IF InvalidTime(delay_seconds)
    THEN [s EXCEPT !.said = "The selected time is in the past."]
    ELSE
      LET timer_id == NextTimerId(s)
          started == QTimer_start(IntervalUnits(delay_seconds), checked)
          s1 == [s EXCEPT !.last_timer_id = timer_id,
                          !.timers = Put(@, timer_id,
                                         [state |-> "created", interval |-> 0])]
      IN
      IF started.state = "OverflowError" THEN [s1 EXCEPT !.raised = TRUE]
      ELSE
        LET s2 == [s1 EXCEPT
                     !.timers[timer_id] = started,
                     !.scheduled_events =
                        Put(@, timer_id,
                            [action_type |-> action_type,
                             scheduled_datetime |-> scheduled_datetime])]
            s3 == log_event(s2, [event |-> "Scheduled", action_type |-> action_type])
        IN IF s3.raised THEN s3
           ELSE [s3 EXCEPT !.said = "Scheduled"]

\* mutant: the command is run before the entry is deleted
execute_action_perform_first(s, timer_id) ==
    IF timer_id \notin DOMAIN s.scheduled_events THEN s
    ELSE
      LET action_type == s.scheduled_events[timer_id].action_type
          s1 == perform_system_action(s, action_type, timer_id)
          s2 == [s1 EXCEPT !.scheduled_events = Remove(@, timer_id)]
          s3 == log_event(s2, [event |-> "Executed", action_type |-> action_type])
      IN IF s3.raised THEN s3 ELSE [s3 EXCEPT !.said = "Executed"]

\* mutant: the entry is not deleted
execute_action_keeps_entry(s, timer_id) ==
    IF timer_id \notin DOMAIN s.scheduled_events THEN s
    ELSE
      LET action_type == s.scheduled_events[timer_id].action_type
          s2 == perform_system_action(s, action_type, timer_id)
          s3 == log_event(s2, [event |-> "Executed", action_type |-> action_type])
      IN IF s3.raised THEN s3 ELSE [s3 EXCEPT !.said = "Executed"]

execute_action(s, timer_id) ==
    IF timer_id \notin DOMAIN s.scheduled_events THEN s
    ELSE
      LET action_type == s.scheduled_events[timer_id].action_type
          s1 == [s EXCEPT !.scheduled_events = Remove(@, timer_id)]
          s2 == perform_system_action(s1, action_type, timer_id)
          s3 == log_event(s2, [event |-> "Executed", action_type |-> action_type])
      IN IF s3.raised THEN s3
         ELSE [s3 EXCEPT !.said = "Executed"]

\* mutant: the cancel does not look whether the entry is there
cancel_event_unguarded(s, timer_id, user_triggered) ==
    LET s1 == [s EXCEPT !.scheduled_events = Remove(@, timer_id),
                        !.canceled = Put(@, timer_id, At(@, timer_id, 0) + 1),
                        !.said = "Canceled"]
    IN log_event(s1, [event |-> "Canceled", action_type |-> ""])

\* mutant: the canceled entry stays in the registry
cancel_event_keeps_entry(s, timer_id, user_triggered) ==
    IF timer_id \notin DOMAIN s.scheduled_events THEN s
    ELSE
      LET action_type == s.scheduled_events[timer_id].action_type
          s1 == [s EXCEPT !.timers = StopTimer(@, timer_id),
                          !.canceled = Put(@, timer_id, At(@, timer_id, 0) + 1),
                          !.said = "Canceled"]
      IN log_event(s1, [event |-> "Canceled", action_type |-> action_type])

\* mutant: the canceled entry is executed as well
cancel_event_executes(s, timer_id, user_triggered) ==
    IF timer_id \notin DOMAIN s.scheduled_events THEN s
    ELSE
      LET action_type == s.scheduled_events[timer_id].action_type
          s1 == [s EXCEPT !.timers = StopTimer(@, timer_id),
                          !.scheduled_events = Remove(@, timer_id),
                          !.canceled = Put(@, timer_id, At(@, timer_id, 0) + 1),
                          !.said = "Canceled"]
      IN perform_system_action(s1, action_type, timer_id)

cancel_event(s, timer_id, user_triggered) ==
    IF timer_id \notin DOMAIN s.scheduled_events THEN s
    ELSE
      LET action_type == s.scheduled_events[timer_id].action_type
          s1 == [s EXCEPT !.timers = StopTimer(@, timer_id),
                          !.scheduled_events = Remove(@, timer_id),
                          !.canceled = Put(@, timer_id, At(@, timer_id, 0) + 1),
                          !.said = "Canceled"]
      IN log_event(s1, [event |-> "Canceled", action_type |-> action_type])

\* the loop of cancel_all_scheduled_events over list(self.scheduled_events.items()):
\* a dict lists its keys in insertion order, which is the order of the ids
RECURSIVE cancel_loop(_, _)
cancel_loop(s, ids) ==
    IF ids = {} \/ s.raised THEN s
    ELSE
      LET timer_id == Min(ids)
          action_type == s.scheduled_events[timer_id].action_type
          s1 == [s EXCEPT !.timers = StopTimer(@, timer_id),
                          !.scheduled_events = Remove(@, timer_id),
                          !.canceled = Put(@, timer_id, At(@, timer_id, 0) + 1)]
          s2 == log_event(s1, [event |-> "Canceled", action_type |-> action_type])
      IN cancel_loop(s2, ids \ {timer_id})

cancel_all_scheduled_events(s) ==
    IF DOMAIN s.scheduled_events = {}
    THEN [s EXCEPT !.said = "No events to cancel."]
    ELSE
      LET s1 == cancel_loop(s, DOMAIN s.scheduled_events)
      IN IF s1.raised THEN s1
         ELSE [s1 EXCEPT !.said = "All scheduled events have been canceled."]

\* PreActionDialog.__init__ followed by dialog.exec_(): the dialog counts
\* down on its own 1 s timer and the caller waits for exec_() to return.
PreActionDialog(timeout) ==
    [remaining_time |-> timeout, user_canceled |-> FALSE,
     result |-> "running", close_timer |-> TRUE]

\* mutant: the dialog counts down from the lead time the program started with
prepare_for_action_default_lead(s, timer_id) ==
    IF timer_id \notin DOMAIN s.scheduled_events THEN s
    ELSE IF ~settings.notify_enable THEN execute_action(s, timer_id)
    ELSE [s EXCEPT !.dialogs = Put(@, timer_id, PreActionDialog(DefaultNotifySeconds)),
                   !.stack = Append(@, timer_id)]

\* prepare_for_action up to line 595
prepare_for_action(s, timer_id) ==
    IF timer_id \notin DOMAIN s.scheduled_events THEN s
    ELSE IF ~settings.notify_enable THEN execute_action(s, timer_id)
    ELSE [s EXCEPT !.dialogs = Put(@, timer_id, PreActionDialog(settings.notify_seconds)),
                   !.stack = Append(@, timer_id)]

\* prepare_for_action from line 597, once exec_() has returned
after_exec(s, timer_id) ==
    IF s.dialogs[timer_id].user_canceled
    THEN cancel_event(s, timer_id, TRUE)
    ELSE execute_action(s, timer_id)

\* The exec_() calls that can return now: the innermost one returns when its
\* dialog is done, its caller runs on and returns to the event loop of the
\* exec_() below it, which returns in turn if its own dialog is done.
RECURSIVE Unwind(_)
Unwind(s) ==
    IF s.stack = <<>> \/ ~s.alive THEN s
    ELSE IF s.dialogs[Top(s.stack)].result = "running" THEN s
    ELSE Unwind(Slot(after_exec([s EXCEPT !.stack = Pop(@)], Top(s.stack))))

\* PreActionDialog.on_timeout; accept() ends exec_()
on_timeout(s, timer_id) ==
    LET d == s.dialogs[timer_id] IN
    IF d.remaining_time - 1 <= 0
    THEN [s EXCEPT !.dialogs[timer_id] =
             [d EXCEPT !.remaining_time = d.remaining_time - 1,
                       !.close_timer = FALSE, !.result = "Accepted"]]
    ELSE [s EXCEPT !.dialogs[timer_id].remaining_time = d.remaining_time - 1]

\* PreActionDialog.reject, the override of QDialog.reject(), which Qt calls
\* from QDialog.closeEvent: the user closes the dialog's window.
\* super().reject() is done(Rejected) and ends exec_().
reject(s, timer_id) ==
    [s EXCEPT !.dialogs[timer_id].user_canceled = TRUE,
              !.dialogs[timer_id].result = "Rejected"]

\* A click on the button added at line 298.  QMessageBox handles the click
\* of any of its buttons by done(<the button's code>), which ends exec_()
\* without calling reject(): user_canceled stays as __init__ set it.
buttonClicked(s, timer_id) ==
    [s EXCEPT !.dialogs[timer_id].result = "Rejected"]

\* ---------------------------------------------------------------- watchdog
\* GetTickCount() through ctypes, whose default result type is a C int, and
\* LASTINPUTINFO.dwTime, a c_uint: elapsed_ms = tick_count - dwTime.  The
\* result is in units; idle seconds are units / UnitsPerSecond.
get_system_idle_time_seconds(tick, dwTime) == WrapCInt(tick) - dwTime

\* mutant: the threshold itself does not count
IdleReached_strict(idle_units, timeout_minutes) ==
    idle_units > timeout_minutes * 60 * UnitsPerSecond

\* idle_seconds >= timeout_minutes * 60.0
IdleReached(idle_units, timeout_minutes) ==
    idle_units >= timeout_minutes * 60 * UnitsPerSecond

\* mutant: with pre-notification enabled the poll leaves the sleep to a
\* notification and performs nothing itself
check_inactivity_notify_gated(s, tick, dwTime) ==
    IF ~settings.auto_sleep_enable \/ settings.notify_enable THEN s
    ELSE IF IdleReached(get_system_idle_time_seconds(tick, dwTime),
                        settings.timeout_minutes)
         THEN perform_system_action(s, "sleep", 0)
         ELSE s

\* mutant: the watchdog logs the sleep it performs
check_inactivity_logged(s, tick, dwTime) ==
    IF ~settings.auto_sleep_enable THEN s
    ELSE IF IdleReached(get_system_idle_time_seconds(tick, dwTime),
                        settings.timeout_minutes)
         THEN log_event(perform_system_action(s, "sleep", 0),
                        [event |-> "Executed", action_type |-> "sleep"])
         ELSE s

check_inactivity(s, tick, dwTime) ==
    IF ~settings.auto_sleep_enable THEN s
    ELSE IF IdleReached(get_system_idle_time_seconds(tick, dwTime),
                        settings.timeout_minutes)
         THEN perform_system_action(s, "sleep", 0)
         ELSE s

\* <<GetTickCount(), dwTime>> in units: 60 s and 59 s after the last input
IdleSamples ==
    {<<61 * UnitsPerSecond, UnitsPerSecond>>, <<60 * UnitsPerSecond, UnitsPerSecond>>}

\* The environment of one handler run: the log file's state matters only
\* when logging is on, the build's reaction only to an exception.
Writable == IF settings.logging_enable THEN BOOLEAN ELSE {TRUE}
Abort(writable, checked) == IF writable /\ ~checked THEN {FALSE} ELSE BOOLEAN
\* whether the binding checks the int conversion matters only to a delay
\* beyond a C int
Checked(delay_seconds) == IF delay_seconds \in FarDelays THEN BOOLEAN ELSE {FALSE}

\* ----------------------------------------------------------------- actions
\* ----------------------------------------------------------------- startup
Processes == 1..MaxProcesses

\* a process that has not been started, or has exited
NotStarted == [pc |-> "idle", is_running |-> FALSE, scheduler |-> FALSE]
\* a process past line 755, in app.exec_()
Running == [pc |-> "running", is_running |-> FALSE, scheduler |-> TRUE]

\* SchedulerApp.__init__: the scheduler as line 755 leaves it
SchedulerInit ==
    /\ scheduled_events = Empty
    /\ last_timer_id = 0
    /\ timers = Empty
    /\ settings = [notify_enable |-> FALSE, notify_seconds |-> DefaultNotifySeconds,
                   logging_enable |-> FALSE, auto_sleep_enable |-> FALSE,
                   timeout_minutes |-> DefaultTimeoutMinutes]
    /\ dialogs = Empty
    /\ stack = <<>>
    /\ performed = Empty
    /\ canceled = Empty
    /\ alive = TRUE
    /\ last_call = [op |-> "__init__"] @@ NoOutput

\* Process 1 has passed the single-instance check and made its SchedulerApp.
Init ==
    /\ SchedulerInit
    /\ semaphore = 1
    /\ shared_memory = {1}
    /\ process = [p \in Processes |-> IF p = 1 THEN Running ELSE NotStarted]

\* What last_call keeps of a schedule request: the button pressed
\* (action_type) is kept for a future time only, the one case that reads it.
ScheduleCall(action_type, scheduled_datetime, current_time) ==
    [op |-> "schedule_action",
     action_type |-> IF scheduled_datetime > current_time THEN action_type ELSE "",
     scheduled_datetime |-> scheduled_datetime,
     current_time |-> current_time] @@ NoOutput

\* the "Schedule ..." buttons of the main window, which an open
\* PreActionDialog (application modal) blocks
click_schedule ==
    /\ alive /\ stack = <<>>
    /\ \E action_type \in ScheduleKinds, scheduled_datetime \in PickerTimes,
          current_time \in CurrentTimes :
        \E checked \in Checked(scheduled_datetime - current_time),
           writable \in Writable :
        \E abort \in Abort(writable, checked) :
        /\ scheduled_datetime > current_time => last_timer_id < MaxId
        /\ Commit(Slot(schedule_action(Frame(writable, abort), action_type,
                                       scheduled_datetime, current_time, checked)),
                  ScheduleCall(action_type, scheduled_datetime, current_time))
    /\ UNCHANGED settings

\* the single-shot timer of an event fires: the lambda of line 552
timer_timeout ==
    /\ alive
    /\ \E timer_id \in DOMAIN timers, writable \in Writable :
        \E abort \in Abort(writable, FALSE) :
        /\ timers[timer_id].state = "running"
        /\ Commit(Slot(prepare_for_action(
                      [Frame(writable, abort) EXCEPT !.timers[timer_id].state = "fired"],
                      timer_id)),
                  [op |-> "prepare_for_action", timer_id |-> timer_id,
                   notify_enable |-> settings.notify_enable] @@ NoOutput)
    /\ UNCHANGED settings

\* the 1 s timer of a dialog fires
close_timer_timeout ==
    /\ alive
    /\ \E timer_id \in DOMAIN dialogs, writable \in Writable :
        \E abort \in Abort(writable, FALSE) :
        /\ dialogs[timer_id].close_timer
        /\ Commit(Unwind(on_timeout(Frame(writable, abort), timer_id)),
                  [op |-> "on_timeout", timer_id |-> timer_id] @@ NoOutput)
    /\ UNCHANGED settings

\* the user presses "Cancel this Action" on the dialog in front
click_cancel_this_action ==
    /\ alive /\ stack # <<>>
    /\ \E writable \in Writable :
        \E abort \in Abort(writable, FALSE) :
        /\ dialogs[Top(stack)].result = "running"
        /\ Commit(Unwind(buttonClicked(Frame(writable, abort), Top(stack))),
                  [op |-> "buttonClicked", timer_id |-> Top(stack)] @@ NoOutput)
    /\ UNCHANGED settings

\* the user closes the window of the dialog in front (title bar, Alt+F4)
close_dialog_window ==
    /\ alive /\ stack # <<>>
    /\ \E writable \in Writable :
        \E abort \in Abort(writable, FALSE) :
        /\ dialogs[Top(stack)].result = "running"
        /\ Commit(Unwind(reject(Frame(writable, abort), Top(stack))),
                  [op |-> "reject", timer_id |-> Top(stack)] @@ NoOutput)
    /\ UNCHANGED settings

\* "Cancel All Events": the main window's button, or the tray menu's entry
click_cancel_all ==
    /\ alive
    /\ \E writable \in Writable :
        \E abort \in Abort(writable, FALSE) :
        Commit(Slot(cancel_all_scheduled_events(Frame(writable, abort))),
               [op |-> "cancel_all_scheduled_events"] @@ NoOutput)
    /\ UNCHANGED settings

\* self.inactivity_timer fires (every 30 s)
inactivity_timer_timeout ==
    /\ alive
    /\ \E sample \in IdleSamples :
        Commit(Slot(check_inactivity(Frame(TRUE, FALSE), sample[1], sample[2])),
                  [op |-> "check_inactivity", tick |-> sample[1],
                   dwTime |-> sample[2]] @@ NoOutput)
    /\ UNCHANGED settings

\* SettingsDialog.on_ok_clicked, the "auto sleep" box as the user left it.
\* The settings are edited while no PreActionDialog is open.
SettingsOk(auto_sleep) ==
    /\ alive /\ stack = <<>>
    /\ \E notify \in BOOLEAN, logging \in BOOLEAN :
        settings' = [notify_enable |-> notify, notify_seconds |-> LeadSeconds,
                     logging_enable |-> logging, auto_sleep_enable |-> auto_sleep,
                     timeout_minutes |-> MinTimeoutMinutes]
    /\ last_call' = [op |-> "on_ok_clicked"] @@ NoOutput
    /\ UNCHANGED <<scheduled_events, last_timer_id, timers, dialogs, stack,
                   performed, canceled, alive>>
    /\ UNCHANGED guard_vars

\* OK with the auto-sleep box unticked
on_ok_clicked == \E auto_sleep \in {FALSE} : SettingsOk(auto_sleep)
\* OK with the auto-sleep box ticked
on_ok_clicked_auto_sleep == \E auto_sleep \in {TRUE} : SettingsOk(auto_sleep)

\* The scheduler: every handler that reads or writes the registry, the
\* timers or the dialogs.  Auto-sleep stays off, so that check_inactivity
\* returns at line 443.
Next ==
    \/ click_schedule
    \/ timer_timeout
    \/ close_timer_timeout
    \/ click_cancel_this_action
    \/ close_dialog_window
    \/ click_cancel_all
    \/ on_ok_clicked

Spec == Init /\ [][Next]_vars

\* The scheduler under Qt's event loop, which delivers the timeout of every
\* running timer: an armed event timer fires and the 1 s timer of a dialog
\* keeps ticking.  Nothing obliges the user to press anything.
LiveSpec ==
    /\ Init /\ [][Next]_vars
    /\ WF_vars(timer_timeout)
    /\ WF_vars(close_timer_timeout)

\* The scheduler together with the inactivity watchdog.
WatchdogNext ==
    \/ Next
    \/ on_ok_clicked_auto_sleep
    \/ inactivity_timer_timeout

WatchdogSpec == Init /\ [][WatchdogNext]_vars

\* ----------------------------------------------- the idle time's arithmetic
\* LASTINPUTINFO.dwTime values, in units: within MaxOffset seconds after the
\* start of the tick counter, before and after it passes 2^31 ms, and before
\* it wraps at 2^32 ms
DwTimes ==
    {base + offset * UnitsPerSecond :
        base \in {0, CIntMax + 1 - 60 * UnitsPerSecond, CIntMax + 1,
                  CIntModulus - 60 * UnitsPerSecond},
        offset \in 0..MaxOffset}

\* how long the user has been idle at the poll, in units: 0 s, 59 s, 60 s, 61 s
IdlePeriods == {0, 59 * UnitsPerSecond, 60 * UnitsPerSecond, 61 * UnitsPerSecond}

\* GetTickCount(): a 32-bit counter of the time since the system started
GetTickCount(dwTime, idle) == (dwTime + idle) % CIntModulus

\* self.inactivity_timer fires, the last input dwTime and idle units ago
idle_poll ==
    /\ alive
    /\ \E dwTime \in DwTimes, idle \in IdlePeriods :
        Commit(Slot(check_inactivity(Frame(TRUE, FALSE),
                                     GetTickCount(dwTime, idle), dwTime)),
               [op |-> "check_inactivity", tick |-> GetTickCount(dwTime, idle),
                dwTime |-> dwTime] @@ NoOutput)
    /\ UNCHANGED settings

\* The watchdog alone, over the whole range of the tick counter.
IdleNext ==
    \/ on_ok_clicked_auto_sleep
    \/ idle_poll

IdleSpec == Init /\ [][IdleNext]_vars

\* ------------------------------------------------- the single-instance check
scheduler_vars == <<scheduled_events, last_timer_id, timers, settings, dialogs,
                    stack, performed, canceled, alive, last_call>>

\* mutant: the segment is attached whether or not it exists already
shared_memory_create_attach(attached, p) ==
    [ok |-> TRUE, attached |-> attached \cup {p}]

\* QSharedMemory.create(1): makes the segment and attaches to it; fails when
\* a segment of that key exists
shared_memory_create(attached, p) ==
    IF attached = {} THEN [ok |-> TRUE, attached |-> {p}]
    ELSE [ok |-> FALSE, attached |-> attached]

\* mutant: the scheduler is made without looking at is_running
main_after_check_always(proc) ==
    [pc |-> "running", is_running |-> proc.is_running, scheduler |-> TRUE]

\* lines 746-762: sys.exit(0) after the message box, or SchedulerApp() and
\* app.exec_()
main_after_check(proc) ==
    IF proc.is_running
    THEN [pc |-> "exited", is_running |-> TRUE, scheduler |-> FALSE]
    ELSE [pc |-> "running", is_running |-> FALSE, scheduler |-> TRUE]

\* No process has been started yet.
GuardInit ==
    /\ SchedulerInit
    /\ semaphore = 1
    /\ shared_memory = {}
    /\ process = [p \in Processes |-> NotStarted]

\* the program is started: lines 725-735
launch(p) ==
    /\ process[p].pc \in {"idle", "exited"}
    /\ process' = [process EXCEPT ![p] = [NotStarted EXCEPT !.pc = "acquire"]]
    /\ UNCHANGED <<semaphore, shared_memory>>
    /\ UNCHANGED scheduler_vars

\* semaphore.acquire() (736) waits until the count is positive
acquire(p) ==
    /\ process[p].pc = "acquire"
    /\ semaphore > 0
    /\ semaphore' = semaphore - 1
    /\ process' = [process EXCEPT ![p].pc = "create"]
    /\ UNCHANGED shared_memory
    /\ UNCHANGED scheduler_vars

\* lines 738-742
create(p) ==
    /\ process[p].pc = "create"
    /\ LET made == shared_memory_create(shared_memory, p) IN
        /\ shared_memory' = made.attached
        /\ process' = [process EXCEPT ![p].pc = "release",
                                      ![p].is_running = ~made.ok]
    /\ UNCHANGED semaphore
    /\ UNCHANGED scheduler_vars

\* mutant: the semaphore is given back only by the process whose claim
\* succeeded
release_if_claimed(p) ==
    /\ process[p].pc = "release"
    /\ semaphore' = IF process[p].is_running THEN semaphore ELSE semaphore + 1
    /\ process' = [process EXCEPT ![p].pc = "decide"]
    /\ UNCHANGED shared_memory
    /\ UNCHANGED scheduler_vars

\* semaphore.release() (744)
release(p) ==
    /\ process[p].pc = "release"
    /\ semaphore' = semaphore + 1
    /\ process' = [process EXCEPT ![p].pc = "decide"]
    /\ UNCHANGED shared_memory
    /\ UNCHANGED scheduler_vars

\* lines 746-762
decide(p) ==
    /\ process[p].pc = "decide"
    /\ process' = [process EXCEPT ![p] = main_after_check(process[p])]
    /\ UNCHANGED <<semaphore, shared_memory>>
    /\ UNCHANGED scheduler_vars

\* quit_app (516-520): app.exec_() returns and the process ends; its
\* QSharedMemory goes with it and the segment with its last attachment
quit_app(p) ==
    /\ process[p].pc = "running"
    /\ process' = [process EXCEPT ![p] = [NotStarted EXCEPT !.pc = "exited"]]
    /\ shared_memory' = shared_memory \ {p}
    /\ UNCHANGED semaphore
    /\ UNCHANGED scheduler_vars

GuardNext ==
    \E p \in Processes :
        \/ launch(p)
        \/ acquire(p)
        \/ create(p)
        \/ release(p)
        \/ decide(p)
        \/ quit_app(p)

GuardSpec == GuardInit /\ [][GuardNext]_vars

\* The processes under the operating system's scheduling: a process that can
\* take its next step of lines 738-744 takes it, and a process waiting in
\* acquire() gets the semaphore at one of the times it is free.  The launch
\* of a process, the answer to the message box and the quitting are the
\* user's and under no obligation.
GuardLiveSpec ==
    /\ GuardInit /\ [][GuardNext]_vars
    /\ \A p \in Processes :
        /\ SF_vars(acquire(p))
        /\ WF_vars(create(p))
        /\ WF_vars(release(p))

\* ------------------------------------------------------- the event's states
Registered(id) == id \in DOMAIN scheduled_events
OnStack(id) == \E i \in 1..Len(stack) : stack[i] = id
\* created, the countdown to firesAt not yet elapsed
Armed(id) ==
    Registered(id) /\ timers[id].state \in {"running", "unarmed"}
                   /\ id \notin DOMAIN dialogs
\* the countdown to firesAt has fired and prepare_for_action waits in exec_()
PreNotifying(id) ==
    Registered(id) /\ timers[id].state = "fired"
                   /\ id \in DOMAIN dialogs /\ OnStack(id)
Executed(id) == id \in DOMAIN performed
Canceled(id) == id \in DOMAIN canceled

\* the step in which the single-shot timer of id fires
Fires(id) == timers[id].state = "running" /\ timers'[id].state = "fired"
\* the perform_system_action calls the last handler made for id
CallsFor(call, id) == SelectSeq(call.calls, LAMBDA c : c.timer_id = id)

\* ------------------------------------------------------------------ claims

\* C1: a schedule request whose firesAt is not strictly after now is
\* rejected and changes nothing: no registry entry, the id counter is not
\* advanced, no timer is made or armed, nothing is performed.
C1_InvalidTimeChangesNothing ==
    [][(/\ last_call'.op = "schedule_action"
        /\ last_call'.scheduled_datetime <= last_call'.current_time)
       => /\ UNCHANGED <<scheduled_events, last_timer_id, timers, dialogs,
                         stack, performed, canceled, alive>>
          /\ last_call'.said = "The selected time is in the past."
          /\ last_call'.calls = <<>>
          /\ last_call'.logged = <<>>
          /\ ~last_call'.unhandled]_vars

\* a request for exactly now was rejected while an event was pending
C1_Witness ==
    /\ last_call.op = "schedule_action"
    /\ last_call.scheduled_datetime = last_call.current_time
    /\ last_call.said = "The selected time is in the past."
    /\ last_timer_id = 1 /\ Registered(1)

\* C2: after a schedule request with firesAt > now the registry holds exactly
\* one new entry, under the newly assigned id, with the requested action kind
\* and firesAt, Armed with its countdown running, every older entry unchanged.
C2_ValidRequestIsArmed ==
    [][(/\ last_call'.op = "schedule_action"
        /\ last_call'.scheduled_datetime > last_call'.current_time)
       => /\ last_timer_id' = last_timer_id + 1
          /\ last_timer_id' \notin DOMAIN scheduled_events
          /\ DOMAIN scheduled_events' = DOMAIN scheduled_events \cup {last_timer_id'}
          /\ scheduled_events'[last_timer_id'] =
                [action_type |-> last_call'.action_type,
                 scheduled_datetime |-> last_call'.scheduled_datetime]
          /\ timers'[last_timer_id'].state = "running"
          /\ last_timer_id' \notin DOMAIN dialogs'
          /\ \A id \in DOMAIN scheduled_events :
                scheduled_events'[id] = scheduled_events[id]]_vars

\* a request for a time about 24.9 days ahead ended on OverflowError: id 1 is
\* used up and the registry holds no entry for it
C2_Witness ==
    /\ last_call.op = "schedule_action"
    /\ last_call.scheduled_datetime - last_call.current_time \in FarDelays
    /\ last_call.unhandled
    /\ last_timer_id = 1 /\ ~Registered(1)
    /\ timers[1].state = "created"

\* C3: when the countdown of an Armed event fires with pre-notification
\* disabled, exactly one perform_system_action call is made for it in that
\* step, with the stored action kind, the entry is gone afterwards, and no
\* further call is ever made for that id.
C3_FireWithoutNotification ==
    [][/\ \A id \in DOMAIN timers :
            (Fires(id) /\ Registered(id) /\ ~settings.notify_enable)
            => /\ last_call'.calls =
                    <<[action_type |-> scheduled_events[id].action_type,
                       timer_id |-> id, in_registry |-> FALSE]>>
               /\ id \notin DOMAIN scheduled_events'
               /\ id \notin DOMAIN dialogs'
               /\ performed' = Put(performed, id, last_call'.calls)
       /\ \A id \in DOMAIN performed :
            /\ id \in DOMAIN performed'
            /\ performed'[id] = performed[id]
            /\ Len(performed[id]) = 1]_vars

\* an event was executed straight from its countdown, another one is pending
C3_Witness ==
    /\ last_call.op = "prepare_for_action"
    /\ ~last_call.notify_enable
    /\ Len(last_call.calls) = 1
    /\ Executed(last_call.timer_id)
    /\ \E id \in DOMAIN scheduled_events : Armed(id)

\* the call execute_action makes for the registered event id
TheCall(id) ==
    [action_type |-> scheduled_events[id].action_type, timer_id |-> id,
     in_registry |-> FALSE]
\* the step in which the lead-time countdown of id reaches zero
ReachesZero(id) ==
    /\ id \in DOMAIN dialogs
    /\ dialogs[id].result = "running"
    /\ dialogs'[id].result = "Accepted"

\* the user cancels on the dialog of id: by its button, or by closing it
UserCancels(id) ==
    /\ last_call'.op \in {"buttonClicked", "reject"}
    /\ last_call'.timer_id = id

\* C4: when the countdown of an Armed event fires with pre-notification
\* enabled the event becomes PreNotifying, staying in the registry with no
\* call made; at the leadTime-th one-second tick, absent a cancel, exactly one
\* perform_system_action call with the event's kind is made and the entry is
\* removed; a cancel before that tick (on the dialog, or by "Cancel All
\* Events") makes the event Canceled, out of the registry, and no call is
\* ever made for the id.
C4_PreNotifyThenExecuteOrCancel ==
    [][\A id \in DOMAIN timers :
        /\ (Fires(id) /\ Registered(id) /\ settings.notify_enable)
           => /\ PreNotifying(id)'
              /\ scheduled_events'[id] = scheduled_events[id]
              /\ dialogs'[id] = PreActionDialog(settings.notify_seconds)
              /\ last_call'.calls = <<>>
        /\ (PreNotifying(id) /\ ReachesZero(id))
           => /\ dialogs'[id].remaining_time = 0
              /\ CallsFor(last_call', id) = <<TheCall(id)>>
              /\ ~Registered(id)'
        /\ (/\ PreNotifying(id) /\ dialogs[id].result = "running"
            /\ UserCancels(id) \/ last_call'.op = "cancel_all_scheduled_events")
           => /\ Canceled(id)' /\ ~Registered(id)'
              /\ CallsFor(last_call', id) = <<>>
        /\ Canceled(id) => ~Executed(id) /\ ~Executed(id)']_vars

\* The part of C4 the code keeps: entering PreNotifying; the execution at
\* the last tick of the dialog whose exec_() is the innermost one; and the
\* outcome of a cancel that reaches cancel_event or the loop of
\* cancel_all_scheduled_events.
C4_InnermostDialog ==
    [][\A id \in DOMAIN timers :
        /\ (Fires(id) /\ Registered(id) /\ settings.notify_enable)
           => /\ PreNotifying(id)'
              /\ scheduled_events'[id] = scheduled_events[id]
              /\ dialogs'[id] = PreActionDialog(settings.notify_seconds)
              /\ last_call'.calls = <<>>
        /\ (PreNotifying(id) /\ ReachesZero(id) /\ Top(stack) = id)
           => /\ dialogs'[id].remaining_time = 0
              /\ CallsFor(last_call', id) = <<TheCall(id)>>
              /\ ~Registered(id)'
        /\ (PreNotifying(id) /\ dialogs[id].result = "running"
                             /\ ~Canceled(id) /\ Canceled(id)')
           => /\ ~Registered(id)'
              /\ CallsFor(last_call', id) = <<>>
        /\ Canceled(id) => ~Executed(id) /\ ~Executed(id)']_vars

\* the user pressed "Cancel this Action" with the countdown of event 1 still
\* running, and the action was performed
C4_Witness ==
    /\ last_call.op = "buttonClicked" /\ last_call.timer_id = 1
    /\ dialogs[1].remaining_time > 0
    /\ ~dialogs[1].user_canceled
    /\ Executed(1) /\ ~Canceled(1)
    /\ Len(last_call.calls) = 1

\* the countdown of event 1 reached zero uncanceled beneath the dialog of
\* event 2: event 1 is still registered and nothing was performed for it
C4_WitnessNested ==
    /\ PreNotifying(1) /\ PreNotifying(2)
    /\ dialogs[1].result = "Accepted" /\ ~dialogs[1].user_canceled
    /\ dialogs[1].remaining_time = 0
    /\ dialogs[2].result = "running"
    /\ ~Executed(1)

\* C5: a cancel of an Armed or PreNotifying event removes its entry in that
\* step with its countdown to firesAt not running afterwards; from then on
\* no perform_system_action call is made for the id, the id does not come
\* back into the registry and no handler that runs for it later (a late fire,
\* the end of its lead-time countdown) executes it or opens a dialog for it.
C5_CancelRemovesForGood ==
    [][\A id \in DOMAIN timers :
        /\ (~Canceled(id) /\ Canceled(id)')
           => /\ Armed(id) \/ PreNotifying(id)
              /\ ~Registered(id)'
              /\ timers'[id].state # "running"
              /\ CallsFor(last_call', id) = <<>>
        /\ Canceled(id)
           => /\ ~Registered(id) /\ ~Registered(id)'
              /\ ~Executed(id) /\ ~Executed(id)'
              /\ CallsFor(last_call', id) = <<>>
              /\ timers'[id].state = timers[id].state
              /\ id \in DOMAIN dialogs' => id \in DOMAIN dialogs]_vars

\* the lead-time countdown of event 1 ended after "Cancel All Events" had
\* removed the event: the handler ran for the id and performed nothing
C5_Witness ==
    /\ Canceled(1) /\ ~Executed(1) /\ ~Registered(1)
    /\ last_call.op = "on_timeout" /\ last_call.timer_id = 1
    /\ dialogs[1].result = "Accepted" /\ ~dialogs[1].user_canceled
    /\ last_call.calls = <<>>

\* C6: every id was executed at most once and canceled at most once, never
\* both, and an executed or canceled id is not in the registry, whatever was
\* scheduled afterwards.
C6_ExecutedXorCanceledOnce ==
    \A id \in 1..last_timer_id :
        /\ Len(At(performed, id, <<>>)) + At(canceled, id, 0) <= 1
        /\ (Executed(id) \/ Canceled(id)) => ~Registered(id)

\* event 1 was canceled by the user on its dialog, event 2 was scheduled
\* after that and executed
C6_Witness ==
    /\ Canceled(1) /\ 1 \in DOMAIN dialogs /\ dialogs[1].user_canceled
    /\ Executed(2) /\ ~Registered(1) /\ ~Registered(2)
    /\ last_call.op = "prepare_for_action" /\ last_call.timer_id = 2

\* the number of canceled events a text of info_label states (-1: none)
CountStated(said) == IF said = "No events to cancel." THEN 0 ELSE -1

\* C7: "Cancel All Events" on a registry of N events leaves the registry
\* empty, every countdown of these events stopped (the one to firesAt and the
\* lead-time countdown of a dialog), makes no perform_system_action call,
\* raises no error and reports N canceled events; on an empty registry it
\* reports 0 and changes nothing.
C7_CancelAllCancelsAndCounts ==
    [][last_call'.op = "cancel_all_scheduled_events"
       => /\ scheduled_events' = Empty
          /\ \A id \in DOMAIN scheduled_events :
                /\ timers'[id].state # "running"
                /\ id \in DOMAIN dialogs => ~dialogs'[id].close_timer
          /\ last_call'.calls = <<>>
          /\ ~last_call'.unhandled
          /\ CountStated(last_call'.said) = Cardinality(DOMAIN scheduled_events)
          /\ scheduled_events = Empty
             => UNCHANGED <<scheduled_events, last_timer_id, timers, dialogs,
                            stack, performed, canceled, alive>>]_vars

\* "Cancel All Events" ended on an exception of log_event after the first of
\* two entries: event 2 is still registered and its countdown still runs
C7_Witness ==
    /\ last_call.op = "cancel_all_scheduled_events"
    /\ last_call.unhandled
    /\ Canceled(1) /\ ~Registered(1)
    /\ Armed(2) /\ timers[2].state = "running"

\* C8: ids are handed out in strictly increasing order: an entry that enters
\* the registry does so under last_timer_id + 1, which no event ever had, also
\* after executions, cancels and rejected requests; the counter never goes back.
C8_IdsStrictlyIncreasing ==
    [][/\ last_timer_id' >= last_timer_id
       /\ \A id \in DOMAIN scheduled_events \cup DOMAIN timers
                    \cup DOMAIN performed \cup DOMAIN canceled :
            id <= last_timer_id
       /\ DOMAIN scheduled_events' \ DOMAIN scheduled_events
            \subseteq {last_timer_id + 1}
       /\ DOMAIN scheduled_events' \ DOMAIN scheduled_events # {}
            => last_timer_id' = last_timer_id + 1
       /\ DOMAIN timers' \ DOMAIN timers \subseteq {last_timer_id + 1}]_vars

\* event 1 was executed, a request for a past time was rejected, and the
\* next request got id 2 with the registry empty before it
C8_Witness ==
    /\ Executed(1) /\ ~Registered(1)
    /\ last_call.op = "schedule_action" /\ last_call.said = "Scheduled"
    /\ last_timer_id = 2 /\ DOMAIN scheduled_events = {2}

IdleOf(call) == call.tick - call.dwTime
Threshold == settings.timeout_minutes * 60 * UnitsPerSecond
SleepCall == [action_type |-> "sleep", timer_id |-> 0, in_registry |-> FALSE]

PollTriggers ==
    /\ last_call'.op = "check_inactivity"
    /\ settings.auto_sleep_enable
    /\ IdleOf(last_call') >= Threshold

HoldsClaim(p) ==
    \/ process[p].pc = "running"
    \/ process[p].pc \in {"release", "decide"} /\ ~process[p].is_running

\* Process p finishes its claim attempt in this step.
Claims(p) == process[p].pc = "create" /\ process'[p].pc = "release"

\* C12: however the startup checks of the processes interleave, at most one
\* process holds a successful claim; a claim attempt succeeds exactly when no
\* live process holds one, and it sees "already running" as long as one does.
C12_ExactlyOneClaimSucceeds ==
    [][/\ Cardinality({p \in Processes : HoldsClaim(p)}) <= 1
       /\ \A p \in Processes :
            Claims(p) =>
                /\ process'[p].is_running
                     <=> (\E q \in Processes \ {p} : HoldsClaim(q))
                /\ ~process'[p].is_running => HoldsClaim(p)'
       /\ Cardinality({p \in Processes : HoldsClaim(p)'}) <= 1]_vars

\* Two processes ran the check concurrently (both were past the start before
\* either had finished): one holds the claim, the other saw it taken.
C12_Witness ==
    /\ process[1].pc = "decide" /\ ~process[1].is_running
    /\ process[2].pc = "decide" /\ process[2].is_running
    /\ process[3].pc = "create"

\* C13: a process whose claim failed never has a scheduler: after the failed
\* claim it goes to its exit without one, and every process that has a
\* scheduler holds the claim.
C13_FailedClaimBuildsNothing ==
    [][/\ \A p \in Processes :
            /\ process[p].scheduler => process[p].pc = "running" /\ HoldsClaim(p)
            /\ process[p].is_running => ~process[p].scheduler
            /\ process[p].is_running /\ process[p].pc = "decide"
                    /\ process'[p] # process[p]
                => process'[p].pc = "exited" /\ ~process'[p].scheduler
       /\ \A p \in Processes :
            process'[p].scheduler => ~process'[p].is_running]_vars

\* A process has left after a failed claim while the first instance runs.
C13_Witness ==
    /\ process[1].pc = "running" /\ process[1].scheduler
    /\ process[2].pc = "exited" /\ process[2].is_running
    /\ ~process[2].scheduler

\* ------------------------------------------- C14: the countdown of a cancel
\* The dialog of event id counts down in this step (on_timeout, line 312).
Ticks(id) ==
    /\ id \in DOMAIN dialogs
    /\ dialogs'[id].remaining_time # dialogs[id].remaining_time

\* C14: once an event that was being pre-notified is canceled, by the user on
\* its dialog or by "Cancel All Events" while the dialog is shown, the
\* dialog's countdown is stopped: it does not tick again.
C14_CanceledCountdownStops ==
    [][\A id \in DOMAIN canceled \cap DOMAIN dialogs : ~Ticks(id)]_vars

\* The user has closed the dialog of event 1, the event is canceled and the
\* dialog's timer is still running.
C14_Witness ==
    /\ 1 \in DOMAIN canceled /\ 1 \in DOMAIN dialogs
    /\ dialogs[1].user_canceled
    /\ dialogs[1].close_timer
    /\ last_call.op = "reject"

\* --------------------------------------- C15: the cancel of an absent event
\* The user closes the dialog of event id, whose entry is gone already, and
\* prepare_for_action calls cancel_event(id) (line 598); the exec_() below,
\* if there is one, stays where it is.
CancelsAbsent(id) ==
    /\ stack # <<>> /\ id = Top(stack)
    /\ id \notin DOMAIN scheduled_events
    /\ ~dialogs[id].user_canceled /\ dialogs'[id].user_canceled
    /\ stack' = Pop(stack)

\* C15: cancel_event for an id that is not in the registry (never
\* scheduled, executed or canceled before) changes nothing: the registry, the
\* id counter, the timers and the other dialogs stay as they are, no command
\* is run, nothing is logged and nothing is raised; a second cancel of an id
\* leaves what the first one left.
C15_CancelOfAbsentIsNoOp ==
    [][/\ \A id \in 1..MaxId, writable \in BOOLEAN :
            LET s == Frame(writable, FALSE)
                once == cancel_event(s, id, TRUE)
            IN /\ id \notin DOMAIN scheduled_events => once = s
               /\ cancel_event(once, id, TRUE) = once
       /\ \A id \in DOMAIN dialogs :
            CancelsAbsent(id) =>
                /\ scheduled_events' = scheduled_events
                /\ last_timer_id' = last_timer_id
                /\ timers' = timers
                /\ \A other \in DOMAIN dialogs \ {id} :
                        dialogs'[other] = dialogs[other]
                /\ canceled' = canceled /\ performed' = performed
                /\ last_call'.calls = <<>> /\ last_call'.logged = <<>>
                /\ last_call'.said = ""
                /\ ~last_call'.unhandled /\ alive']_vars

\* Event 1 was canceled by "Cancel All Events" while its dialog was shown,
\* and then the user closed the dialog: cancel_event(1) found no entry.
C15_Witness ==
    /\ last_call.op = "reject" /\ last_call.timer_id = 1
    /\ dialogs[1].user_canceled
    /\ 1 \in DOMAIN canceled /\ canceled[1] = 1
    /\ last_call.said = "" /\ stack = <<>>
    /\ settings.logging_enable

\* ------------------------------------------------ C16: the log cannot be written
\* The handlers that log and raise nothing else: execute, cancel, cancel-all,
\* and a schedule request whose interval fits a C int.
LogsOnly(call) ==
    \/ call.op \in {"prepare_for_action", "on_timeout", "reject",
                    "buttonClicked", "cancel_all_scheduled_events"}
    \/ call.op = "schedule_action"
        /\ call.scheduled_datetime - call.current_time <= CIntMax \div UnitsPerSecond

\* C16: a failure to write the log during schedule, execute, cancel or
\* cancel-all is swallowed: no exception leaves the handler, the process
\* lives on, and cancel-all still empties the registry and stops every
\* event's timer.
C16_LogFailureIsSwallowed ==
    [][/\ LogsOnly(last_call') => ~last_call'.unhandled /\ alive'
       /\ last_call'.op = "cancel_all_scheduled_events" =>
            /\ scheduled_events' = Empty
            /\ \A id \in DOMAIN timers' : ~isActive(timers'[id])]_vars

\* "Cancel All Events" with two events registered and a log file that cannot
\* be opened: the exception left the handler and an event is still registered.
C16_Witness ==
    /\ last_call.op = "cancel_all_scheduled_events"
    /\ settings.logging_enable
    /\ last_call.unhandled
    /\ DOMAIN scheduled_events # {}

\* ------------------------------------- C17: the settings are read when used
\* C17: each decision uses the settings as they are stored when it is made.
\* When an event's timer fires, the dialog is shown exactly if notifications
\* are enabled then, counting down from the lead time stored then; every
\* watchdog poll sleeps exactly if auto-sleep is enabled then and the idle
\* time has reached the timeout stored then.
C17_SettingsReadAtDecision ==
    [][/\ \A id \in DOMAIN scheduled_events :
            Fires(id) =>
                IF settings.notify_enable
                THEN /\ id \in DOMAIN dialogs'
                     /\ dialogs'[id].remaining_time = settings.notify_seconds
                     /\ last_call'.calls = <<>>
                ELSE /\ id \notin DOMAIN dialogs'
                     /\ CallsFor(last_call', id) # <<>>
       /\ last_call'.op = "check_inactivity" =>
            (last_call'.calls # <<>>
                <=> /\ settings.auto_sleep_enable
                    /\ IdleReached(get_system_idle_time_seconds(
                                       last_call'.tick, last_call'.dwTime),
                                   settings.timeout_minutes))]_vars

\* Event 1 fired while notifications were off and was executed at once; the
\* settings were changed, and event 2 fired into a dialog that counts down
\* from the lead time set in between.
C17_Witness ==
    /\ 1 \in DOMAIN performed /\ 1 \notin DOMAIN dialogs
    /\ last_call.op = "prepare_for_action" /\ last_call.timer_id = 2
    /\ 2 \in DOMAIN dialogs
    /\ dialogs[2].remaining_time = LeadSeconds
    /\ settings.auto_sleep_enable

\* --------------------------------------- C18: the countdown reaches zero
\* C18: when the lead-time countdown of a PreNotifying event reaches zero and
\* no cancel was asked for, the event is executed in that very step: the
\* first command the step runs is the event's, it is the only one run for it,
\* and the entry is out of the registry after the step; this also with two
\* events PreNotifying.
C18_ZeroExecutesInThatStep ==
    [][\A id \in DOMAIN dialogs :
        (PreNotifying(id) /\ ReachesZero(id))
           => /\ last_call'.calls # <<>>
              /\ Head(last_call'.calls) = TheCall(id)
              /\ CallsFor(last_call', id) = <<TheCall(id)>>
              /\ ~Registered(id)']_vars

\* The dialog of event 1 has just counted down to zero beneath the dialog of
\* event 2, which is still open: event 1 stays registered, unexecuted.
C18_Witness ==
    /\ stack = <<1, 2>>
    /\ last_call.op = "on_timeout" /\ last_call.timer_id = 1
    /\ dialogs[1].result = "Accepted" /\ dialogs[2].result = "running"
    /\ Registered(1) /\ ~Executed(1)
    /\ last_call.calls = <<>>

\* ------------------------------------------ C19: one handler at a time
\* the handlers that read or write self.scheduled_events
RegistryHandlers ==
    {"schedule_action", "prepare_for_action", "cancel_all_scheduled_events",
     "check_inactivity"}

\* C19: from the start of prepare_for_action for an event until its return,
\* the time its dialog is shown included, no other handler of the registry
\* runs, and the registry changes only when a waiting prepare_for_action
\* goes on.
C19_HandlersDoNotInterleave ==
    [][stack # <<>> =>
        /\ last_call'.op \notin RegistryHandlers
        /\ scheduled_events' # scheduled_events => Len(stack') < Len(stack)]_vars

\* prepare_for_action(1) waits in exec_() with its dialog shown, and "Cancel
\* All Events" has run meanwhile and deleted the entry it is working on.
C19_Witness ==
    /\ stack = <<1>> /\ dialogs[1].result = "running"
    /\ last_call.op = "cancel_all_scheduled_events"
    /\ Canceled(1) /\ ~Registered(1)

\* ------------------------------------------------ C20: the life of an event
\* The edges of the state machine without what triggers them: every event
\* goes Armed -> PreNotifying -> Executed or Canceled, or straight from Armed
\* to Executed or Canceled; it is executed only after its timer has fired, is
\* PreNotifying at most once, and stays Executed or Canceled.
EdgesOnly(id) ==
    /\ Armed(id) => Armed(id)' \/ PreNotifying(id)' \/ Executed(id)' \/ Canceled(id)'
    /\ PreNotifying(id) => PreNotifying(id)' \/ Executed(id)' \/ Canceled(id)'
    /\ Executed(id) => Executed(id)' /\ ~Registered(id)' /\ ~Canceled(id)'
    /\ Canceled(id) => Canceled(id)' /\ ~Registered(id)' /\ ~Executed(id)'
    /\ (~Executed(id) /\ Executed(id)') => timers'[id].state = "fired"
    /\ (~PreNotifying(id) /\ PreNotifying(id)')
            => Armed(id) /\ id \notin DOMAIN dialogs

\* The state machine's edges hold in the program whatever triggers them.
C20_EdgesHold ==
    [][\A id \in DOMAIN timers : EdgesOnly(id)]_vars

\* C20: an event changes state only along Armed -> Executed (its timer fires,
\* notifications off), Armed -> PreNotifying (its timer fires, notifications
\* on), PreNotifying -> Executed (its countdown reaches zero),
\* PreNotifying -> Canceled and Armed -> Canceled; it is not executed before
\* its timer has fired, it enters PreNotifying once at most, and it never
\* leaves Executed or Canceled.
C20_StateMachine ==
    [][\A id \in DOMAIN timers :
        /\ EdgesOnly(id)
        /\ (Armed(id) /\ Executed(id)') => Fires(id) /\ ~settings.notify_enable
        /\ (Armed(id) /\ PreNotifying(id)') => Fires(id) /\ settings.notify_enable
        /\ (PreNotifying(id) /\ Executed(id)') => ReachesZero(id)]_vars

\* Event 1 went from PreNotifying to Executed with its countdown untouched:
\* the user pressed "Cancel this Action" before the first tick.
C20_Witness ==
    /\ last_call.op = "buttonClicked" /\ last_call.timer_id = 1
    /\ Executed(1) /\ ~Canceled(1)
    /\ dialogs[1].remaining_time = LeadSeconds
    /\ dialogs[1].result = "Rejected"

\* ------------------------------------------------------- C21: the log file
\* the lines of one kind that the handler of this step appended
Logged(event) == Len(SelectSeq(last_call'.logged, LAMBDA line : line.event = event))

\* the events this step put into the registry, executed and canceled
ScheduledNow == Cardinality(DOMAIN scheduled_events' \ DOMAIN scheduled_events)
ExecutedNow == Len(SelectSeq(last_call'.calls, LAMBDA c : c.timer_id # 0))
RECURSIVE CanceledIn(_)
CanceledIn(ids) ==
    IF ids = {} THEN 0
    ELSE LET id == Min(ids)
         IN (canceled'[id] - At(canceled, id, 0)) + CanceledIn(ids \ {id})
CanceledNow == CanceledIn(DOMAIN canceled')

C22_IntervalIsTheDelay ==
    [][last_call'.op = "schedule_action" =>
        /\ last_call'.scheduled_datetime > last_call'.current_time
            => /\ last_timer_id' \in DOMAIN timers'
               /\ timers'[last_timer_id'].state = "running"
               /\ timers'[last_timer_id'].interval =
                    IntervalUnits(last_call'.scheduled_datetime
                                    - last_call'.current_time)
        /\ (last_timer_id' # last_timer_id \/ DOMAIN timers' # DOMAIN timers)
            => last_timer_id' \in DOMAIN scheduled_events']_vars

\* A request for about 24.9 days ahead on a binding that cuts the interval to
\* 32 bits: the entry is stored with a timer whose interval is negative and
\* which Qt did not arm.
C22_Witness ==
    /\ last_call.op = "schedule_action"
    /\ last_call.scheduled_datetime - last_call.current_time \in FarDelays
    /\ Registered(1)
    /\ timers[1].state = "unarmed"
    /\ timers[1].interval < 0
    /\ timers[1].interval # IntervalUnits(last_call.scheduled_datetime
                                            - last_call.current_time)

\* --------------------------------------------- C23: every event leaves
\* C23: with timers that fire and dialogs whose countdown ends, every event
\* in the registry leaves it in the end, executed or canceled (or the
\* process has ended, and its registry with it); this also with
\* several dialogs open at once.
C23_EveryEventLeaves ==
    \A id \in 1..MaxId :
        (id \in DOMAIN scheduled_events)
            ~> (id \notin DOMAIN scheduled_events \/ ~alive)

\* Every other event in the registry of a live process has a timer at work
\* for it: its own, still running, or, once that has fired, the 1 s timer of
\* the dialog in front, whose end lets the waiting prepare_for_action calls
\* go on.
C23_ArmedEventsCanMove ==
    \A id \in DOMAIN scheduled_events :
        (alive /\ timers[id].state # "unarmed") =>
            \/ timers[id].state = "running"
            \/ /\ timers[id].state = "fired"
               /\ OnStack(id)
               /\ dialogs[Top(stack)].result = "running"
               /\ dialogs[Top(stack)].close_timer
               /\ dialogs[Top(stack)].remaining_time > 0

\* Event 1 sits in the registry with a timer that was never armed, while
\* event 2, scheduled after it, has fired and been executed.
C23_Witness ==
    /\ alive
    /\ Registered(1) /\ timers[1].state = "unarmed"
    /\ Executed(2) /\ ~Registered(2)

\* ---------------------------------------------------- C24: the idle time
\* the idle time of the poll as the function returned it, and as it was
ReturnedIdle(call) == get_system_idle_time_seconds(call.tick, call.dwTime)
TrueIdle(call) == (call.tick - call.dwTime) % CIntModulus

\* C24: get_system_idle_time_seconds never returns a negative value: for
\* every 32-bit tick count and last-input tick, also with the tick count past
\* 2^31 ms or wrapped at 2^32 ms, it returns (tick - dwTime) mod 2^32, so that
\* a poll with auto-sleep enabled and the idle time at the threshold or above
\* performs the sleep.
C24_IdleTimeIsNeverNegative ==
    [][last_call'.op = "check_inactivity" =>
        /\ ReturnedIdle(last_call') >= 0
        /\ ReturnedIdle(last_call') = TrueIdle(last_call')
        /\ (settings.auto_sleep_enable /\ TrueIdle(last_call') >= Threshold)
            => last_call'.calls = <<SleepCall>>]_vars

\* A poll with the tick counter past 2^31 ms: the user has been idle for the
\* timeout, the function returned a negative idle time and nothing was done.
C24_Witness ==
    /\ last_call.op = "check_inactivity"
    /\ settings.auto_sleep_enable
    /\ last_call.tick > CIntMax /\ last_call.dwTime <= CIntMax
    /\ TrueIdle(last_call) >= Threshold
    /\ ReturnedIdle(last_call) < 0
    /\ last_call.calls = <<>>

\* ------------------------------------- C25: the semaphore is given back
\* the processes between acquire() and release()
Holders == {p \in Processes : process[p].pc \in {"create", "release"}}

\* C25: the semaphore is held only between acquire() and release(), by one
\* process at most, and is given back before the process goes on to its
\* decision, whether its claim succeeded or failed; so every process that
\* has been started gets the semaphore and reaches its decision.
C25_SemaphoreIsReleased ==
    /\ [](/\ semaphore = 1 - Cardinality(Holders)
          /\ Cardinality(Holders) <= 1)
    /\ \A p \in Processes :
        (process[p].pc = "acquire") ~> (process[p].pc = "decide")

\* Process 2 failed its claim and has left, process 3 came after it, got the
\* semaphore, failed as well and stands at its decision; the semaphore is
\* free.
C25_Witness ==
    /\ process[1].pc = "running"
    /\ process[2].pc = "exited" /\ process[2].is_running
    /\ process[3].pc = "decide" /\ process[3].is_running
    /\ semaphore = 1
====
